---- MODULE Spec2Model ----
(***************************************************************************)
(* Job-control core of the shell in src/unnamed/part_000 (the variant with *)
(* a working Reaper; src/826.c is the earlier variant of the same file).   *)
(*                                                                         *)
(* The model has three kinds of steps:                                     *)
(*   - the main context: main()'s read loop, eval(), run_fg(), run_bg();   *)
(*   - the two signal handlers, forward_signal() and reap_child();         *)
(*   - the environment: children that exit, are killed, stop or continue, *)
(*     and the kernel's bookkeeping of what waitpid() may still report.    *)
(***************************************************************************)
EXTENDS Integers, Sequences, FiniteSets

\* ------------------------------------------------------------------ bounds
\* Capacity of the job table; the source has 100 (part_000:13), scaled down.
MAXJOBS == 2
\* Process ids the kernel hands out; a pid is free again once it was reaped.
MaxPid == 3
\* next_jid stops the launching of new commands when it reaches this value.
MaxJid == 3
\* Longest numeral typed after fg/bg (after the optional %).
MaxTokLen == 2

Slots == 1..MAXJOBS
Pids == 1..MaxPid

VARIABLES
  jobs,       \* static job jobs[MAXJOBS]
  next_jid,   \* static int next_jid
  fg_pid,     \* static int fg_pid
  pc,         \* where the main context is
  cmd,        \* argv[0] of the line being evaluated: none, run, fg, bg, jobs
  cur,        \* eval's pid / stp_pid, the argument of run_fg and run_bg
  status,     \* run_fg's status, as classified by WIFSIGNALED / WIFSTOPPED
  ret,        \* the jid local of run_fg / run_bg (result of addjob, setjobstat)
  sigblocked, \* SIGCHLD is in the main context's signal mask
  sigchld,    \* a SIGCHLD is pending
  hpc,        \* where the innermost running handler is (none: no handler runs)
  hstack,     \* the signals whose handlers have not returned, innermost last
  out,        \* what the main context printed while evaluating this line
  proc,       \* kernel: state of each child process
  wstat       \* kernel: the state change of each child waitpid has not reported

vars == <<jobs, next_jid, fg_pid, pc, cmd, cur, status, ret, sigblocked,
          sigchld, hpc, hstack, out, proc, wstat>>

\* ------------------------------------------------------------- job table
Min(S) == CHOOSE x \in S : \A y \in S : x <= y
Max(S) == CHOOSE x \in S : \A y \in S : y <= x

\* A zero-initialised static slot.
EmptyJob == [pid |-> 0, jid |-> 0, st |-> "UNINIT"]

\* The slots the loops' test j->pid == pid accepts.
HoldsPid(t, pid) == {i \in Slots : t[i].pid = pid}

\* The slots addjob's test j->st == UNINIT || j->st == TERMINATED accepts.
FreeSlots(t) == {i \in Slots : t[i].st \in {"UNINIT", "TERMINATED"}}

\* Values the uninitialised local free_job may hold when the loop never
\* assigned it: 0 is NULL, i in Slots is &jobs[i] (a stale pointer of an
\* earlier call), MAXJOBS + 1 is an address outside the table.
Garbage == 0..(MAXJOBS + 1)

\* addjob with the test j->pid == pid left out: every call takes a free slot.
addjob_nomatch(t, nj, pid, st, garbage) ==
  LET free_job == IF FreeSlots(t) # {} THEN Max(FreeSlots(t)) ELSE garbage
  IN  IF free_job \in Slots
      THEN [jobs |-> [t EXCEPT ![free_job] = [pid |-> pid, jid |-> nj + 1, st |-> st]],
            next_jid |-> nj + 1, ret |-> nj + 1, fault |-> FALSE]
      ELSE [jobs |-> t, next_jid |-> nj, ret |-> -1, fault |-> free_job # 0]

\* addjob whose re-registration of a pid also gives its slot a new jid.
addjob_rejid(t, nj, pid, st, garbage) ==
  IF HoldsPid(t, pid) # {}
  THEN LET i == Min(HoldsPid(t, pid))
       IN  [jobs |-> [t EXCEPT ![i] = [pid |-> pid, jid |-> nj + 1, st |-> st]],
            next_jid |-> nj + 1, ret |-> nj + 1, fault |-> FALSE]
  ELSE addjob_nomatch(t, nj, pid, st, garbage)

\* int addjob(pid_t pid, Status st). The loop returns at the first slot that
\* holds pid, whatever its status; otherwise free_job is the LAST free slot
\* the loop saw, or was never assigned. A write through a pointer outside the
\* table is reported as fault (the process does not survive it).
addjob(t, nj, pid, st, garbage) ==
  IF HoldsPid(t, pid) # {}
  THEN LET i == Min(HoldsPid(t, pid))
       IN  [jobs |-> [t EXCEPT ![i].st = st], next_jid |-> nj,
            ret |-> t[i].jid, fault |-> FALSE]
  ELSE LET free_job == IF FreeSlots(t) # {} THEN Max(FreeSlots(t)) ELSE garbage
       IN  IF free_job \in Slots
           THEN [jobs |-> [t EXCEPT ![free_job] = [pid |-> pid, jid |-> nj + 1, st |-> st]],
                 next_jid |-> nj + 1, ret |-> nj + 1, fault |-> FALSE]
           ELSE IF free_job = 0
                THEN [jobs |-> t, next_jid |-> nj, ret |-> -1, fault |-> FALSE]
                ELSE [jobs |-> t, next_jid |-> nj + 1, ret |-> nj + 1, fault |-> TRUE]

\* setjobstat that takes a free slot when no slot holds pid.
setjobstat_creates(t, pid, st) ==
  IF HoldsPid(t, pid) # {}
  THEN LET i == Min(HoldsPid(t, pid))
       IN  [jobs |-> [t EXCEPT ![i].st = st], ret |-> t[i].jid]
  ELSE IF FreeSlots(t) # {}
       THEN [jobs |-> [t EXCEPT ![Max(FreeSlots(t))] = [pid |-> pid, jid |-> 0, st |-> st]],
             ret |-> 0]
       ELSE [jobs |-> t, ret |-> -1]

\* int setjobstat(pid_t pid, Status st)
setjobstat(t, pid, st) ==
  IF HoldsPid(t, pid) # {}
  THEN LET i == Min(HoldsPid(t, pid))
       IN  [jobs |-> [t EXCEPT ![i].st = st], ret |-> t[i].jid]
  ELSE [jobs |-> t, ret |-> -1]

\* A jobs loop that skips the UNINIT slots only.
Listed_terminated(t) == {i \in Slots : t[i].st # "UNINIT"}

\* The slots builtin_command's jobs loop prints.
Listed(t) == {i \in Slots : t[i].st # "TERMINATED" /\ t[i].st # "UNINIT"}

\* ------------------------------------------------------ tokens, parse_pid
Digit == <<"0", "1", "2", "3", "4", "5", "6", "7", "8", "9">>
IsDigit(c) == \E d \in 1..10 : Digit[d] = c
DigitOf(c) == (CHOOSE d \in 1..10 : Digit[d] = c) - 1

\* Characters a numeral is typed from: the digits up to MaxPid and a letter.
Chars == {Digit[d + 1] : d \in 0..MaxPid} \cup {"x"}
Numerals == UNION {[1..k -> Chars] : k \in 1..MaxTokLen}
\* argv[1] of fg / bg: a numeral, or % followed by a numeral or by nothing.
Tokens == Numerals \cup {<<"%">> \o s : s \in Numerals \cup {<<>>}}

RECURSIVE DigitsLen(_)
DigitsLen(s) ==
  IF s = <<>> \/ ~IsDigit(Head(s)) THEN 0 ELSE 1 + DigitsLen(Tail(s))

RECURSIVE Decimal(_, _)
Decimal(s, acc) ==
  IF s = <<>> THEN acc ELSE Decimal(Tail(s), acc * 10 + DigitOf(Head(s)))

\* strtol(str, &endptr, 10): the value of the leading digits, and the
\* position at which the conversion stopped.
strtol(s) ==
  LET n == DigitsLen(s)
  IN  [val |-> Decimal(SubSeq(s, 1, n), 0), endptr |-> n + 1]

\* parse_int that takes the leading digits and ignores what follows them.
parse_int_lenient(s) == strtol(s).val

\* int parse_int(char *str): -1 unless the whole string was converted.
parse_int(s) ==
  LET r == strtol(s) IN IF r.endptr <= Len(s) THEN -1 ELSE r.val

\* The guard both loops of parse_pid evaluate: j->st == TERMINATED && j->st == UNINIT.
StatusRejected(j) == j.st = "TERMINATED" /\ j.st = "UNINIT"

\* The slot at which parse_pid's %-loop returns (0: it runs to the end): the
\* first one that the status guard rejects or whose jid is the one asked for.
FirstHitJid(t, jid) ==
  LET hits == {i \in Slots : StatusRejected(t[i]) \/ t[i].jid = jid}
  IN  IF hits = {} THEN 0 ELSE Min(hits)

\* The same for parse_pid's pid loop.
FirstHitPid(t, pid) ==
  LET hits == {i \in Slots : StatusRejected(t[i]) \/ t[i].pid = pid}
  IN  IF hits = {} THEN 0 ELSE Min(hits)

\* pid_t parse_pid(char *s)
parse_pid(t, s) ==
  IF Head(s) = "%"
  THEN LET jid == parse_int(Tail(s))
           i == FirstHitJid(t, jid)
       IN  IF jid <= 0 THEN -1
           ELSE IF i = 0 \/ StatusRejected(t[i]) THEN -1 ELSE t[i].pid
  ELSE LET pid == parse_int(s)
           i == FirstHitPid(t, pid)
       IN  IF i = 0 \/ StatusRejected(t[i]) THEN -1 ELSE pid

\* ------------------------------------------------------------- termination
\* How the shell process can end.
Terminal == {"exit_quit", "exit_full", "segv", "err_kill_fwd", "err_kill_cont",
             "err_waitpid"}
ShellAlive == pc \notin Terminal

\* -------------------------------------------------------------------- Init
Init ==
  /\ jobs = [i \in Slots |-> EmptyJob]
  /\ next_jid = 0
  /\ fg_pid = 0
  /\ pc = "prompt"
  /\ cmd = "none"
  /\ cur = 0
  /\ status = "none"
  /\ ret = 0
  /\ sigblocked = FALSE
  /\ sigchld = FALSE
  /\ hpc = "none"
  /\ hstack = <<>>
  /\ out = <<>>
  /\ proc = [p \in Pids |-> "none"]
  /\ wstat = [p \in Pids |-> "none"]

\* The shell process ends (exit, or a fatal signal) for `reason`: its memory is
\* gone and its children are no longer its children.
Halt(reason) ==
  /\ pc' = reason
  /\ jobs' = [i \in Slots |-> EmptyJob]
  /\ next_jid' = 0
  /\ fg_pid' = 0
  /\ cmd' = "none"
  /\ cur' = 0
  /\ status' = "none"
  /\ ret' = 0
  /\ sigblocked' = FALSE
  /\ sigchld' = FALSE
  /\ hpc' = "none"
  /\ hstack' = <<>>
  /\ out' = <<>>
  /\ proc' = [p \in Pids |-> "none"]
  /\ wstat' = [p \in Pids |-> "none"]

\* ------------------------------------------------------------ main context
\* A main that does not block SIGCHLD around eval.
BlockChld_not(prev) == prev

\* main: sigprocmask(SIG_BLOCK, &mask_one, &prev_one) before eval. The value
\* is whether SIGCHLD is blocked afterwards.
BlockChld(prev) == TRUE

\* The main context runs only while no handler does, and until the shell ends.
MainRuns == ShellAlive /\ hpc = "none"

\* The innermost frame of a non-empty handler stack, and the stack without it.
Top(s) == s[Len(s)]
Pop(s) == SubSeq(s, 1, Len(s) - 1)

\* kill(p, SIGCONT) on an existing process: a stopped process resumes and the
\* parent is notified of it; a running process or a zombie is unaffected.
KillCont(p) ==
  IF proc[p] = "stopped"
  THEN /\ proc' = [proc EXCEPT ![p] = "running"]
       /\ wstat' = [wstat EXCEPT ![p] = "continued"]
       /\ sigchld' = TRUE
  ELSE UNCHANGED <<proc, wstat, sigchld>>

\* Lines the main context prints: eval's "No such process", run_bg's
\* "[jid] pid cmd", run_fg's two notices (jid -1 is printed as "-"), and one
\* line of the jobs listing, the status by its name (jstatus_str).
NoSuchLine == <<"No such process">>
BgLine(jid, pid) == <<"bg", jid, pid>>
TerminatedLine(jid, pid) == <<"terminated by signal", jid, pid>>
StoppedLine(jid, pid) == <<"stopped by signal", jid, pid>>
JobLine(j) == <<"job", j.jid, j.pid, j.st>>

\* A line "<program> [&]": main blocks SIGCHLD, eval forks (Fork), and is
\* about to call run_fg(pid) or run_bg(pid, cmdline). The kernel gives the
\* child any pid no process holds.
CmdRun(bg, p) ==
  /\ MainRuns /\ pc = "prompt"
  /\ next_jid < MaxJid
  /\ proc[p] = "none"
  /\ sigblocked' = BlockChld(sigblocked)
  /\ proc' = [proc EXCEPT ![p] = "running"]
  /\ cmd' = "run"
  /\ cur' = p
  /\ pc' = IF bg THEN "run_bg" ELSE "run_fg"
  /\ UNCHANGED <<jobs, next_jid, fg_pid, status, ret, sigchld, hpc, hstack, out,
                 wstat>>

\* What parse_pid can return in table t, over the tokens a user can type.
Resolvable(t) == {parse_pid(t, tok) : tok \in Tokens}

\* A line "fg <tok>" or "bg <tok>" (which: "fg" or "bg"), stp_pid being what
\* parse_pid makes of the token: kill(stp_pid, SIGCONT), whose failure ends
\* the shell (unix_error), then run_fg / run_bg is about to be called; "No
\* such process" when stp_pid is not > 0.
CmdResume(which) ==
  /\ MainRuns /\ pc = "prompt"
  /\ \E stp_pid \in Resolvable(jobs) :
         IF stp_pid > 0 /\ ~(stp_pid \in Pids /\ proc[stp_pid] # "none")
         THEN Halt("err_kill_cont")
         ELSE /\ sigblocked' = BlockChld(sigblocked)
              /\ cmd' = which
              /\ IF stp_pid > 0
                 THEN /\ KillCont(stp_pid)
                      /\ cur' = stp_pid
                      /\ pc' = IF which = "fg" THEN "run_fg" ELSE "run_bg"
                      /\ UNCHANGED out
                 ELSE /\ pc' = "restore"
                      /\ out' = <<NoSuchLine>>
                      /\ UNCHANGED <<cur, proc, wstat, sigchld>>
              /\ UNCHANGED <<jobs, next_jid, fg_pid, status, ret, hpc, hstack>>

\* The lines builtin_command's jobs loop prints for table t, in slot order.
JobsLines(t) ==
  LET listed == SelectSeq([i \in 1..MAXJOBS |-> i], LAMBDA i : i \in Listed(t))
  IN  [k \in 1..Len(listed) |-> JobLine(t[listed[k]])]

\* A line "jobs": builtin_command prints the listed slots and changes nothing.
CmdJobs ==
  /\ MainRuns /\ pc = "prompt"
  /\ sigblocked' = BlockChld(sigblocked)
  /\ cmd' = "jobs"
  /\ out' = JobsLines(jobs)
  /\ pc' = "restore"
  /\ UNCHANGED <<jobs, next_jid, fg_pid, cur, status, ret, sigchld, hpc, hstack,
                 proc, wstat>>

\* A line "quit", or end of input: exit(0).
CmdQuit ==
  /\ MainRuns /\ pc = "prompt"
  /\ Halt("exit_quit")

\* run_fg, first statement: fg_pid = pid; then it blocks in waitpid.
RunFgSet ==
  /\ MainRuns /\ pc = "run_fg"
  /\ fg_pid' = cur
  /\ pc' = "fg_wait"
  /\ UNCHANGED <<jobs, next_jid, cmd, cur, status, ret, sigblocked, sigchld,
                 hpc, hstack, out, proc, wstat>>

\* What waitpid(pid, &status, WUNTRACED) can return for child p: an exit (the
\* zombie is reaped) or a stop that was not reported yet; not a continue.
FgReportable(p) == wstat[p] \in {"exited", "signaled", "stopped"}

\* A wait for any child: waitpid(-1, ..).
Waited_any(pid) == Pids

\* The children a waitpid(pid, ..) with pid > 0 reports on: that one.
Waited(pid) == {pid}

\* run_fg: waitpid(pid, &status, WUNTRACED) returns. It fails (unix_error)
\* when pid is no child of the shell.
WaitFg ==
  /\ MainRuns /\ pc = "fg_wait"
  /\ IF proc[cur] = "none"
     THEN Halt("err_waitpid")
     ELSE \E q \in Waited(cur) :
          /\ FgReportable(q)
          /\ status' = wstat[q]
          /\ wstat' = [wstat EXCEPT ![q] = "none"]
          /\ proc' = [proc EXCEPT ![q] =
                        IF wstat[q] = "stopped" THEN "stopped" ELSE "none"]
          /\ pc' = "fg_post"
          /\ UNCHANGED <<jobs, next_jid, fg_pid, cmd, cur, ret, sigblocked,
                         sigchld, hpc, hstack, out>>

\* The callers of addjob, r being its result: a write outside the table ends
\* the shell, a result < 0 makes the caller print "Could not add new job" and
\* exit(0), and otherwise the caller goes on with the jid. (fg_pid and the
\* line printed are the caller's.)
Registered(r) ==
  IF r.fault THEN Halt("segv")
  ELSE IF r.ret < 0 THEN Halt("exit_full")
  ELSE /\ jobs' = r.jobs
       /\ next_jid' = r.next_jid
       /\ ret' = r.ret
       /\ pc' = "restore"
       /\ UNCHANGED <<cmd, cur, status, sigblocked, sigchld, hpc, hstack, proc,
                      wstat>>

\* The value of fg_pid when run_fg returns, given the wait's outcome: only the
\* WIFSTOPPED branch assigns fg_pid = 0.
FgPidAfter(st, old) == IF st = "stopped" THEN 0 ELSE old

\* run_fg after waitpid: WIFSIGNALED -> setjobstat(pid, TERMINATED) and the
\* notice; WIFSTOPPED -> fg_pid = 0, addjob(pid, STOPPED) (exit(0) when it
\* fails) and the notice; a normal exit -> nothing. Then eval returns to main.
FgPost ==
  /\ MainRuns /\ pc = "fg_post"
  /\ \/ /\ status = "signaled"
        /\ LET r == setjobstat(jobs, cur, "TERMINATED")
           IN  /\ jobs' = r.jobs /\ ret' = r.ret
               /\ out' = <<TerminatedLine(r.ret, cur)>>
        /\ fg_pid' = FgPidAfter(status, fg_pid)
        /\ pc' = "restore"
        /\ UNCHANGED <<next_jid, cmd, cur, status, sigblocked, sigchld, hpc,
                       hstack, proc, wstat>>
     \/ /\ status = "stopped"
        /\ \E g \in Garbage : Registered(addjob(jobs, next_jid, cur, "STOPPED", g))
        /\ pc' = "restore" => /\ fg_pid' = FgPidAfter(status, fg_pid)
                              /\ out' = <<StoppedLine(ret', cur)>>
     \/ /\ status = "exited"
        /\ fg_pid' = FgPidAfter(status, fg_pid)
        /\ pc' = "restore"
        /\ UNCHANGED <<jobs, next_jid, ret, cmd, cur, status, sigblocked,
                       sigchld, hpc, hstack, out, proc, wstat>>

\* run_bg: fg_pid = 0; addjob(pid, RUNNING) (exit(0) when it fails); print.
RunBg ==
  /\ MainRuns /\ pc = "run_bg"
  /\ \E g \in Garbage : Registered(addjob(jobs, next_jid, cur, "RUNNING", g))
  /\ pc' = "restore" => /\ fg_pid' = 0
                        /\ out' = <<BgLine(ret', cur)>>

\* main: sigprocmask(SIG_SETMASK, &prev_one, NULL) after eval, then the next
\* prompt. eval's locals are dead from here on. A SIGCHLD that became pending
\* during eval is delivered before sigprocmask returns: reap_child is entered,
\* at position h (see the handlers).
RestoreTo(h) ==
  /\ MainRuns /\ pc = "restore"
  /\ sigblocked' = FALSE
  /\ pc' = "prompt"
  /\ cmd' = "none" /\ cur' = 0 /\ status' = "none" /\ ret' = 0 /\ out' = <<>>
  /\ IF sigchld
     THEN sigchld' = FALSE /\ hstack' = <<"SIGCHLD">> /\ hpc' = h
     ELSE UNCHANGED <<sigchld, hstack, hpc>>
  /\ UNCHANGED <<jobs, next_jid, fg_pid, proc, wstat>>

Restore == RestoreTo("reap")

\* ----------------------------------------------------------------- handlers
\* The handlers are installed with signal(): when the kernel calls one, it
\* blocks only the signal being handled; the others are blocked once the
\* handler's own sigprocmask(SIG_BLOCK, &mask_all, ..) has run. hpc = "entry"
\* is the innermost handler before that call, hpc = "reap" is reap_child after
\* it. Spec takes the entry of a handler and its sigprocmask as one step;
\* NestSpec (below) takes them apart, so that a second signal can arrive in
\* between. The stretch after a handler's closing sigprocmask(SIG_SETMASK,
\* &prev_all, ..), in which it touches nothing, is part of its return.
Running(sig) == \E k \in 1..Len(hstack) : hstack[k] = sig

\* The kernel may call the handler of sig now: no handler has blocked all
\* signals, the handler of sig itself is not running, and for SIGCHLD one is
\* pending and the main context's mask lets it through.
Deliverable(sig) ==
  /\ ShellAlive /\ hpc \in {"none", "entry"}
  /\ ~Running(sig)
  /\ sig = "SIGCHLD" => (sigchld /\ ~sigblocked)

\* forward_signal that always forwards SIGTSTP.
KillFwd_tstp(p, sig) ==
  \/ UNCHANGED <<proc, wstat, sigchld>>
  \/ /\ proc[p] = "running"
     /\ proc' = [proc EXCEPT ![p] = "stopped"]
     /\ wstat' = [wstat EXCEPT ![p] = "stopped"]
     /\ sigchld' = TRUE

\* kill(p, sig) on an existing process, sig being SIGINT or SIGTSTP: a running
\* process with the default disposition is terminated (SIGINT) or stopped
\* (SIGTSTP); one that catches or ignores sig, a stopped one (the signal stays
\* pending) or a zombie shows nothing.
KillFwd(p, sig) ==
  \/ UNCHANGED <<proc, wstat, sigchld>>
  \/ /\ sig = "SIGINT" /\ proc[p] = "running"
     /\ proc' = [proc EXCEPT ![p] = "zombie"]
     /\ wstat' = [wstat EXCEPT ![p] = "signaled"]
     /\ sigchld' = TRUE
  \/ /\ sig = "SIGTSTP" /\ proc[p] = "running"
     /\ proc' = [proc EXCEPT ![p] = "stopped"]
     /\ wstat' = [wstat EXCEPT ![p] = "stopped"]
     /\ sigchld' = TRUE

\* A forward_signal that calls kill whatever fg_pid is.
Forwards_always(fp) == TRUE

\* forward_signal's test if (fg_pid).
Forwards(fp) == fp # 0

\* Process p exists: kill(p, ..) fails with ESRCH otherwise.
Exists(p) == p \in Pids /\ proc[p] # "none"

\* The body of forward_signal(sig): with a foreground pid designated it calls
\* kill(fg_pid, sig); ESRCH ends the shell (unix_error). Otherwise it returns,
\* the handler stack then being hs and the innermost handler at h.
Relay(sig, hs, h) ==
  IF Forwards(fg_pid) /\ ~Exists(fg_pid)
  THEN Halt("err_kill_fwd")
  ELSE /\ IF Forwards(fg_pid)
          THEN KillFwd(fg_pid, sig)
          ELSE UNCHANGED <<proc, wstat, sigchld>>
       /\ hstack' = hs
       /\ hpc' = h
       /\ UNCHANGED <<jobs, next_jid, fg_pid, pc, cmd, cur, status, ret,
                      sigblocked, out>>

\* Ctrl+C / Ctrl+Z: the terminal sends sig to the shell while no handler runs,
\* and forward_signal(sig) runs from its entry to its return.
forward_signal(sig) ==
  /\ Deliverable(sig) /\ hpc = "none"
  /\ Relay(sig, hstack, hpc)

\* reap_child is entered, at position h: SIGCHLD is pending and not blocked.
ReapEnterAt(h) ==
  /\ Deliverable("SIGCHLD")
  /\ sigchld' = FALSE
  /\ hstack' = Append(hstack, "SIGCHLD")
  /\ hpc' = h
  /\ UNCHANGED <<jobs, next_jid, fg_pid, pc, cmd, cur, status, ret, sigblocked,
                 out, proc, wstat>>

ReapEnter == hpc = "none" /\ ReapEnterAt("reap")

\* The innermost handler returns to what it interrupted.
HandlerReturn ==
  /\ hstack' = Pop(hstack)
  /\ hpc' = IF Len(hstack) = 1 THEN "none" ELSE "entry"

\* reap_child is the innermost handler (before or after it blocked all signals).
InReap == ShellAlive /\ hpc \in {"entry", "reap"} /\ Top(hstack) = "SIGCHLD"

\* A classification without the WIFCONTINUED case: whatever is not an exit is
\* a stop.
Classify_nocont(w) ==
  IF w \in {"exited", "signaled"} THEN "TERMINATED" ELSE "STOPPED"

\* A classification that takes a death by signal for a stop.
Classify_signaled(w) ==
  IF w = "exited" THEN "TERMINATED"
  ELSE IF w \in {"signaled", "stopped"} THEN "STOPPED"
  ELSE "RUNNING"

\* reap_child's classification of a wait status.
Classify(w) ==
  IF w \in {"exited", "signaled"} THEN "TERMINATED"
  ELSE IF w = "stopped" THEN "STOPPED"
  ELSE "RUNNING"

\* One iteration of reap_child's loop: waitpid(-1, WNOHANG | WUNTRACED |
\* WCONTINUED) reports child p, then setjobstat(p, st). (From hpc = "entry"
\* it is the first iteration, after sigprocmask(SIG_BLOCK).)
ReapOne(p) ==
  /\ InReap
  /\ wstat[p] # "none"
  /\ jobs' = setjobstat(jobs, p, Classify(wstat[p])).jobs
  /\ wstat' = [wstat EXCEPT ![p] = "none"]
  /\ proc' = [proc EXCEPT ![p] =
                IF wstat[p] \in {"exited", "signaled"} THEN "none" ELSE @]
  /\ hpc' = "reap"
  /\ UNCHANGED <<next_jid, fg_pid, pc, cmd, cur, status, ret, sigblocked,
                 sigchld, hstack, out>>

\* A loop that ends after any iteration, whatever is left.
NothingToReport_any == TRUE

\* waitpid(-1, WNOHANG | ..) returns 0 or fails with ECHILD: no child has a
\* change to report.
NothingToReport == \A p \in Pids : wstat[p] = "none"

\* reap_child returns: waitpid found no child with a change to report.
ReapReturn ==
  /\ InReap
  /\ NothingToReport
  /\ HandlerReturn
  /\ UNCHANGED <<jobs, next_jid, fg_pid, pc, cmd, cur, status, ret, sigblocked,
                 sigchld, out, proc, wstat>>

\* --- the same handlers with the entry window as a state (NestSpec)
\* The kernel calls forward_signal(sig); it has not blocked the signals yet.
SigArrives(sig) ==
  /\ Deliverable(sig)
  /\ hstack' = Append(hstack, sig)
  /\ hpc' = "entry"
  /\ UNCHANGED <<jobs, next_jid, fg_pid, pc, cmd, cur, status, ret, sigblocked,
                 sigchld, out, proc, wstat>>

\* forward_signal, the innermost handler, runs from its sigprocmask(SIG_BLOCK)
\* to its return.
RelayBody ==
  /\ ShellAlive /\ hpc = "entry" /\ Top(hstack) \in {"SIGINT", "SIGTSTP"}
  /\ Relay(Top(hstack), Pop(hstack), IF Len(hstack) = 1 THEN "none" ELSE "entry")

\* The kernel calls reap_child; it has not blocked the signals yet.
ReapArrives == ReapEnterAt("entry")

RestoreWindow == RestoreTo("entry")

\* -------------------------------------------------------------- environment
\* Child p calls exit (or fails to exec and exits).
ChildExits(p) ==
  /\ ShellAlive /\ proc[p] = "running"
  /\ proc' = [proc EXCEPT ![p] = "zombie"]
  /\ wstat' = [wstat EXCEPT ![p] = "exited"]
  /\ sigchld' = TRUE
  /\ UNCHANGED <<jobs, next_jid, fg_pid, pc, cmd, cur, status, ret, sigblocked,
                 hpc, hstack, out>>

\* Child p is terminated by a signal (a forwarded SIGINT, or any other).
ChildKilled(p) ==
  /\ ShellAlive /\ proc[p] \in {"running", "stopped"}
  /\ proc' = [proc EXCEPT ![p] = "zombie"]
  /\ wstat' = [wstat EXCEPT ![p] = "signaled"]
  /\ sigchld' = TRUE
  /\ UNCHANGED <<jobs, next_jid, fg_pid, pc, cmd, cur, status, ret, sigblocked,
                 hpc, hstack, out>>

\* Child p is stopped by a signal (a forwarded SIGTSTP, or any other).
ChildStops(p) ==
  /\ ShellAlive /\ proc[p] = "running"
  /\ proc' = [proc EXCEPT ![p] = "stopped"]
  /\ wstat' = [wstat EXCEPT ![p] = "stopped"]
  /\ sigchld' = TRUE
  /\ UNCHANGED <<jobs, next_jid, fg_pid, pc, cmd, cur, status, ret, sigblocked,
                 hpc, hstack, out>>

\* Child p is continued by a SIGCONT the shell did not send.
ChildContinues(p) ==
  /\ ShellAlive /\ proc[p] = "stopped"
  /\ proc' = [proc EXCEPT ![p] = "running"]
  /\ wstat' = [wstat EXCEPT ![p] = "continued"]
  /\ sigchld' = TRUE
  /\ UNCHANGED <<jobs, next_jid, fg_pid, pc, cmd, cur, status, ret, sigblocked,
                 hpc, hstack, out>>

\* --------------------------------------------------------------------- Spec
\* The steps of the main context other than main's restoring of the mask.
MainStep ==
  \/ \E bg \in BOOLEAN, p \in Pids : CmdRun(bg, p)
  \/ \E which \in {"fg", "bg"} : CmdResume(which)
  \/ CmdJobs
  \/ CmdQuit
  \/ RunFgSet
  \/ WaitFg
  \/ FgPost
  \/ RunBg

\* The steps of the children.
ChildStep ==
  \/ \E p \in Pids : ChildExits(p)
  \/ \E p \in Pids : ChildKilled(p)
  \/ \E p \in Pids : ChildStops(p)
  \/ \E p \in Pids : ChildContinues(p)

Next ==
  \/ MainStep
  \/ Restore
  \/ \E sig \in {"SIGINT", "SIGTSTP"} : forward_signal(sig)
  \/ ReapEnter
  \/ \E p \in Pids : ReapOne(p)
  \/ ReapReturn
  \/ ChildStep

Spec == Init /\ [][Next]_vars

\* The main context's steps between the reading of a line and the next
\* prompt; at most one of them is enabled at a time.
MainProgress == RunFgSet \/ WaitFg \/ FgPost \/ RunBg \/ Restore

\* The shell's own code runs on whenever it can: the main context until the
\* next prompt (waitpid once it has something to return), and reap_child's
\* loop while a child has something to report. What is typed, what signals
\* arrive and what the children do is up to the environment.
Fairness ==
  /\ WF_vars(MainProgress)
  /\ WF_vars(\E p \in Pids : ReapOne(p))

FairSpec == Spec /\ Fairness

\* The same system with the handlers' entry windows.
NestNext ==
  \/ MainStep
  \/ RestoreWindow
  \/ \E sig \in {"SIGINT", "SIGTSTP"} : SigArrives(sig)
  \/ RelayBody
  \/ ReapArrives
  \/ \E p \in Pids : ReapOne(p)
  \/ ReapReturn
  \/ ChildStep

NestSpec == Init /\ [][NestNext]_vars

\* ------------------------------------------------------------------ claims
\* The numeral of a token (what follows the optional %).
NumeralOf(tok) == IF Head(tok) = "%" THEN Tail(tok) ELSE tok

\* The slots a token names: by jid for a %-token, by pid otherwise.
NamedSlots(t, tok) ==
  IF Head(tok) = "%"
  THEN {i \in Slots : t[i].jid = parse_int(NumeralOf(tok))}
  ELSE {i \in Slots : t[i].pid = parse_int(NumeralOf(tok))}

\* The reaper collected a state change of child p in this step.
ReapStep(p) == InReap /\ wstat[p] # "none" /\ wstat'[p] = "none"

\* The main context is at the prompt, no handler runs, no SIGCHLD is pending.
Quiescent == pc = "prompt" /\ hpc = "none" /\ ~sigchld

\* C1: at every prompt, parse_pid called with a %<jid> token or a pid token
\* (a positive number) that names a slot whose status is UNINIT or TERMINATED
\* returns -1, never the slot's stale pid.
C1_StaleRejected ==
  (pc = "prompt" /\ hpc = "none") =>
    \A tok \in Tokens :
      ( /\ parse_int(NumeralOf(tok)) > 0
        /\ \E i \in NamedSlots(jobs, tok) : jobs[i].st \in {"UNINIT", "TERMINATED"} )
      => parse_pid(jobs, tok) = -1

\* C2: when run_fg returns (the wait's outcome is in status and eval is about
\* to return to main), fg_pid is 0, whatever the outcome was.
C2_FgCleared == (pc = "restore" /\ status # "none") => fg_pid = 0

\* C3: whenever forward_signal can run and finds a foreground pid designated,
\* that process has not been reaped, so kill never fails and the relay never
\* ends the shell.
C3_RelayTargetExists ==
  /\ pc # "err_kill_fwd"
  /\ (ShellAlive /\ hpc = "none" /\ fg_pid # 0) => proc[fg_pid] # "none"

\* C4: once the shell is back at the prompt and the pending SIGCHLD has been
\* handled, every slot that jobs lists belongs to a process that has not
\* exited: a tracked process that exited is TERMINATED, whoever reaped it.
C4_ExitedAbsent ==
  Quiescent => \A i \in Listed(jobs) : proc[jobs[i].pid] \in {"running", "stopped"}

\* C5: for a command launched with &, SIGCHLD stays blocked and no handler
\* reaps the child from the fork until run_bg has registered it (so the child
\* has a RUNNING slot when run_bg returns, even if it exited at once); and when
\* the reaper later collects the exit (stop) of a pid, no slot of that pid
\* stays RUNNING: it is TERMINATED (STOPPED).
C5_RegisterBeforeReap ==
  [][ /\ (pc = "run_bg" /\ cmd = "run") =>
           /\ sigblocked /\ ~Running("SIGCHLD")
           /\ pc' = "run_bg" =>
                (~Running("SIGCHLD")' /\ proc'[cur] # "none" /\ jobs' = jobs)
           /\ pc' = "restore" =>
                \E i \in Slots : jobs'[i].pid = cur /\ jobs'[i].st = "RUNNING"
      /\ \A p \in Pids : ReapStep(p) =>
           \A i \in HoldsPid(jobs', p) : jobs'[i].st = Classify(wstat[p])
    ]_vars

\* C5 witness: a background child that exited before run_bg registered it.
C5_Witness ==
  pc = "run_bg" /\ cmd = "run" /\ proc[cur] = "zombie" /\ sigchld /\ HoldsPid(jobs, cur) = {}

\* C6: next_jid never decreases while the shell runs, and the job a command
\* line launches (registered by run_bg, or by run_fg when it is stopped) gets a
\* jid greater than every jid issued before: no jid of an earlier launch.
C6_JidNeverReused ==
  [][ ShellAlive' =>
        /\ next_jid' >= next_jid
        /\ ( /\ cmd = "run"
             /\ pc = "run_bg" \/ (pc = "fg_post" /\ status = "stopped")
             /\ pc' = "restore" )
           => \A i \in HoldsPid(jobs', cur) : jobs'[i].jid > next_jid
    ]_vars

\* C7: no two slots that are RUNNING or STOPPED hold the same pid.
C7_NoDuplicateLivePid ==
  \A i, j \in Listed(jobs) : i # j => jobs[i].pid # jobs[j].pid

\* C7 witness: bg re-registered a tracked pid while the other slot is live too.
C7_Witness ==
  /\ pc = "restore" /\ cmd = "bg" /\ ret > 0
  /\ Listed(jobs) = Slots
  /\ \E i \in Slots : jobs[i].pid = cur /\ jobs[i].st = "RUNNING"

\* C8: in every reachable table, addjob for a pid that a slot holds sets only
\* that slot's status, returns the slot's jid, leaves next_jid and the other
\* slots as they are, and applied a second time changes nothing more.
C8_Reregister ==
  \A pid \in Pids, st \in {"RUNNING", "STOPPED"}, g \in Garbage :
    HoldsPid(jobs, pid) # {} =>
      LET r  == addjob(jobs, next_jid, pid, st, g)
          r2 == addjob(r.jobs, r.next_jid, pid, st, g)
      IN  /\ ~r.fault
          /\ r.next_jid = next_jid
          /\ \E i \in HoldsPid(jobs, pid) :
               /\ r.ret = jobs[i].jid
               /\ r.jobs = [jobs EXCEPT ![i].st = st]
          /\ r2 = r

\* C8 witness: run_bg re-registered a tracked pid (bg) and got back its jid,
\* which is not the latest jid issued.
C8_Witness ==
  /\ pc = "restore" /\ cmd = "bg" /\ ret > 0 /\ ret < next_jid
  /\ \E i \in Slots : jobs[i].pid = cur /\ jobs[i].jid = ret /\ jobs[i].st = "RUNNING"

\* C9: whenever run_bg or run_fg is about to call addjob for a pid no slot
\* holds, the call succeeds (a new slot, the next jid) if some slot is UNINIT
\* or TERMINATED, and otherwise returns -1 and leaves the table and next_jid
\* unchanged, whatever the uninitialised local holds.
C9_FullTableFails ==
  (pc = "run_bg" \/ (pc = "fg_post" /\ status = "stopped")) =>
    \A g \in Garbage :
      HoldsPid(jobs, cur) = {} =>
        LET st == IF pc = "run_bg" THEN "RUNNING" ELSE "STOPPED"
            r == addjob(jobs, next_jid, cur, st, g)
        IN  IF FreeSlots(jobs) # {}
            THEN /\ ~r.fault /\ r.ret = next_jid + 1 /\ r.next_jid = next_jid + 1
                 /\ \E i \in FreeSlots(jobs) :
                      r.jobs = [jobs EXCEPT ![i] =
                                  [pid |-> cur, jid |-> next_jid + 1, st |-> st]]
            ELSE ~r.fault /\ r.ret = -1 /\ r.jobs = jobs /\ r.next_jid = next_jid

\* C10: every setjobstat call (the reaper's, and run_fg's after a fatal
\* signal) leaves next_jid alone; when no slot holds the pid it leaves the
\* table unchanged (and returns -1); when a slot holds it, it changes that
\* slot's status and nothing else.
C10_SetStatusFrame ==
  [][ \A p \in Pids :
        ( \/ ReapStep(p)
          \/ (pc = "fg_post" /\ status = "signaled" /\ pc' = "restore" /\ p = cur) )
        => /\ next_jid' = next_jid
           /\ IF HoldsPid(jobs, p) = {}
              THEN jobs' = jobs /\ (pc = "fg_post" => ret' = -1)
              ELSE \E i \in HoldsPid(jobs, p) :
                     /\ jobs' = [jobs EXCEPT ![i].st = jobs'[i].st]
                     /\ pc = "fg_post" => ret' = jobs[i].jid
    ]_vars

\* C10 witness: run_fg's setjobstat found no slot for a foreground child that
\* a signal killed.
C10_Witness == pc = "restore" /\ status = "signaled" /\ ret = -1 /\ HoldsPid(jobs, cur) = {}

\* The innermost handler is forward_signal and this step is its body and return.
RelayStep ==
  /\ hpc = "entry" /\ Top(hstack) \in {"SIGINT", "SIGTSTP"}
  /\ Len(hstack') < Len(hstack)

\* C11: a run of forward_signal that finds fg_pid = 0 sends nothing and ends
\* nothing: no child changes state, no SIGCHLD is raised, the shell goes on, and
\* the table, next_jid, fg_pid and the main context are as before.
C11_NoForegroundNoRelay ==
  [][ (RelayStep /\ fg_pid = 0) =>
        /\ ShellAlive'
        /\ hstack' = Pop(hstack)
        /\ UNCHANGED <<jobs, next_jid, fg_pid, proc, wstat, sigchld, pc, cmd, cur,
                       status, ret, sigblocked, out>>
    ]_vars

\* C11 witness: SIGINT is being handled at the prompt while no foreground pid
\* is designated and a background job runs.
C11_Witness ==
  /\ hpc = "entry" /\ Top(hstack) = "SIGINT" /\ fg_pid = 0 /\ pc = "prompt"
  /\ \E i \in Listed(jobs) : proc[jobs[i].pid] = "running"

\* A numeral with a character that is no digit.
Malformed(num) == \E k \in 1..Len(num) : ~IsDigit(num[k])

\* Tokens the claim is about: a malformed number, or a pid / %jid no slot holds.
Unresolved(t, tok) == Malformed(NumeralOf(tok)) \/ NamedSlots(t, tok) = {}

\* eval took the "No such process" branch of fg / bg in this step.
NoSuchStep == pc = "prompt" /\ cmd' \in {"fg", "bg"} /\ pc' \notin {"run_fg", "run_bg"}

\* C12: at every prompt parse_pid gives no pid (a result <= 0) for a token that
\* is malformed or names a pid or jid no slot holds; and when fg / bg gets no
\* pid, eval prints "No such process" and returns to main: no signal is sent
\* (no child changes state), the table, next_jid and fg_pid are unchanged, and
\* the shell goes on to the next prompt (unless a Ctrl+C / Ctrl+Z that arrives
\* meanwhile ends it in forward_signal, which is C3's matter).
C12_UnknownTokenHarmless ==
  /\ [](pc = "prompt" /\ hpc = "none" =>
          \A tok \in Tokens : Unresolved(jobs, tok) => parse_pid(jobs, tok) <= 0)
  /\ [][ /\ NoSuchStep =>
              /\ pc' = "restore" /\ out' = <<NoSuchLine>>
              /\ UNCHANGED <<jobs, next_jid, fg_pid, proc, wstat, sigchld>>
         /\ (pc = "restore" /\ out = <<NoSuchLine>> /\ pc' # pc)
              => pc' \in {"prompt", "err_kill_fwd"}
      ]_vars

\* C12 witness: fg with an unknown token was answered "No such process" while
\* a stopped job is in the table.
C12_Witness ==
  /\ pc = "restore" /\ cmd = "fg" /\ out = <<NoSuchLine>>
  /\ \E i \in Slots : jobs[i].st = "STOPPED" /\ proc[jobs[i].pid] = "stopped"

\* C13: for a command launched in the foreground (cmd = "run" through run_fg):
\* nothing changes jobs or next_jid while run_fg sets fg_pid and waits; after a
\* normal exit run_fg changes neither and prints nothing; after a stop run_fg
\* fills exactly one slot that was free with the pid, STOPPED and the jid
\* next_jid + 1, advances next_jid to it, and prints that jid in the notice.
C13_FgLaunchTable ==
  [][ (cmd = "run" /\ ShellAlive') =>
        /\ pc \in {"run_fg", "fg_wait"} => UNCHANGED <<jobs, next_jid>>
        /\ (pc = "fg_post" /\ status = "exited") =>
             (UNCHANGED <<jobs, next_jid>> /\ (pc' # pc => out' = <<>>))
        /\ (pc = "fg_post" /\ status = "stopped" /\ pc' # pc) =>
             /\ next_jid' = next_jid + 1
             /\ out' = <<StoppedLine(next_jid + 1, cur)>>
             /\ \E i \in FreeSlots(jobs) :
                  jobs' = [jobs EXCEPT ![i] =
                             [pid |-> cur, jid |-> next_jid + 1, st |-> "STOPPED"]]
    ]_vars

\* C14: whenever the shell is at the prompt and the Reaper has handled what
\* was pending, every listed slot of a live process shows what the process
\* does: STOPPED if it is stopped, RUNNING if it runs (again); and neither the
\* Reaper nor bg (run_bg's addjob for a tracked pid) ever changes the pid or
\* the jid of a slot, bg leaving the slot it names RUNNING.
C14_StopContinueTracked ==
  /\ [](Quiescent =>
          \A i \in Listed(jobs) :
            /\ proc[jobs[i].pid] = "stopped" => jobs[i].st = "STOPPED"
            /\ proc[jobs[i].pid] = "running" => jobs[i].st = "RUNNING")
  /\ [][ /\ (\E p \in Pids : ReapStep(p)) =>
              \A i \in Slots : jobs'[i].pid = jobs[i].pid /\ jobs'[i].jid = jobs[i].jid
         /\ (cmd = "bg" /\ pc = "run_bg" /\ pc' = "restore") =>
              /\ \A i \in Slots : jobs'[i].pid = jobs[i].pid /\ jobs'[i].jid = jobs[i].jid
              /\ \E i \in Slots : jobs'[i].pid = cur /\ jobs'[i].st = "RUNNING"
      ]_vars

\* C14 witness: bg has just continued a stopped tracked job (the kernel has the
\* continue to report) and its slot, an earlier jid on it, is RUNNING.
C14_Witness ==
  /\ pc = "restore" /\ cmd = "bg" /\ cur \in Pids /\ wstat[cur] = "continued"
  /\ \E i \in Slots : /\ jobs[i].pid = cur /\ jobs[i].st = "RUNNING"
                      /\ jobs[i].jid = ret /\ ret < next_jid

\* C15: at most one handler invocation is in progress at any time: no handler
\* is entered while forward_signal or reap_child has not returned.
C15_NoNesting == Len(hstack) <= 1

\* run_fg's waitpid returned in this step.
WaitReturns == pc = "fg_wait" /\ pc' = "fg_post"

\* C16: when run_fg's waitpid(P) returns it has taken P's state change and no
\* other child's; a change of another child Q that is pending during the wait
\* stays pending (the Reaper takes none before main restores the mask); once
\* the line is finished with a change pending the Reaper does run (unless the
\* shell ends); when it takes Q's change, Q's slot gets Q's new status; and it
\* leaves no change behind when it returns.
C16_WaitTakesOnlyItsOwn ==
  /\ [][ /\ WaitReturns =>
              /\ status' = wstat[cur] /\ wstat'[cur] = "none"
              /\ \A q \in Pids \ {cur} : wstat'[q] = wstat[q] /\ proc'[q] = proc[q]
         /\ \A q \in Pids :
              /\ (pc \in {"fg_wait", "fg_post"} /\ q # cur /\ wstat[q] # "none" /\ ShellAlive')
                   => wstat'[q] # "none"
              /\ ReapStep(q) =>
                   \A i \in HoldsPid(jobs', q) : jobs'[i].st = Classify(wstat[q])
      ]_vars
  /\ (pc = "restore" /\ sigchld) ~> (Running("SIGCHLD") \/ ~ShellAlive)
  /\ [](Quiescent => \A q \in Pids : wstat[q] = "none")

\* C16 witness: the wait for P has returned while the exit of a tracked
\* background job Q is still unreported and Q's slot still says RUNNING.
C16_Witness ==
  /\ pc = "fg_post" /\ status = "exited"
  /\ \E i \in Slots : /\ jobs[i].pid \in Pids \ {cur} /\ jobs[i].st = "RUNNING"
                      /\ wstat[jobs[i].pid] = "exited"

\* run_fg's waitpid returns only with an exit, a kill or a stop of P, and
\* never fails: reap_child does not run while the main context evaluates a
\* line, so it cannot take P's status first.
WaitSound ==
  /\ [][ /\ WaitReturns => FgReportable(cur) /\ status' = wstat[cur]
         /\ pc = "fg_wait" => ~ReapStep(cur) ]_vars
  /\ [](pc # "err_waitpid")
  /\ [](pc = "fg_wait" => sigblocked /\ ~Running("SIGCHLD"))

\* C17 as stated: the wait returns only on an exit, a kill or a stop of P and
\* never fails, and whenever one of the three has happened to P during the
\* wait, the wait eventually returns.
C17_WaitReturnsExactly ==
  /\ WaitSound
  /\ (pc = "fg_wait" /\ FgReportable(cur)) ~> (pc # "fg_wait")

\* C17 amended: the wait returns only on an exit, a kill or a stop of P and
\* never fails; once P has exited or been killed the wait eventually returns;
\* once P has stopped the wait eventually returns unless P is continued
\* before waitpid has reported the stop.
C17_WaitReturnsUnlessContinued ==
  /\ WaitSound
  /\ (pc = "fg_wait" /\ FgReportable(cur))
       ~> (pc # "fg_wait" \/ wstat[cur] = "continued")

\* C17 witness: the wait has returned with P's stop while a SIGCHLD is
\* pending and blocked.
C17_Witness ==
  pc = "fg_post" /\ status = "stopped" /\ sigchld /\ sigblocked /\ proc[cur] = "stopped"

\* C18: while the main context waits for P in run_fg, SIGINT and SIGTSTP can
\* be delivered to the shell although SIGCHLD is blocked, and forward_signal
\* then signals P and nothing else: the kill succeeds, no other child changes,
\* and P changes only as the signal that arrived changes it (SIGINT may
\* kill it, SIGTSTP may stop it).
C18_RelayToForegroundOnly ==
  /\ [](pc = "fg_wait" =>
          /\ fg_pid = cur /\ sigblocked
          /\ hstack = <<>> => Deliverable("SIGINT") /\ Deliverable("SIGTSTP"))
  /\ [][ (RelayStep /\ pc = "fg_wait") =>
           /\ ShellAlive' /\ UNCHANGED <<jobs, next_jid, fg_pid, pc, cur>>
           /\ \A q \in Pids \ {cur} : proc'[q] = proc[q] /\ wstat'[q] = wstat[q]
           /\ \/ proc'[cur] = proc[cur] /\ wstat'[cur] = wstat[cur]
              \/ /\ Top(hstack) = "SIGINT" /\ proc[cur] = "running"
                 /\ proc'[cur] = "zombie" /\ wstat'[cur] = "signaled" /\ sigchld'
              \/ /\ Top(hstack) = "SIGTSTP" /\ proc[cur] = "running"
                 /\ proc'[cur] = "stopped" /\ wstat'[cur] = "stopped" /\ sigchld'
      ]_vars

\* C18 witness: SIGINT has arrived while run_fg waits for the running P and a
\* background job is running too.
C18_Witness ==
  /\ pc = "fg_wait" /\ hpc = "entry" /\ Top(hstack) = "SIGINT"
  /\ proc[cur] = "running"
  /\ \E i \in Listed(jobs) : jobs[i].pid # cur /\ proc[jobs[i].pid] = "running"

\* Process p is the one run_fg has been called for.
BroughtForward(p) == pc \in {"run_fg", "fg_wait", "fg_post"} /\ cur = p

\* Process p exists and is in the background: eval is about to call
\* run_bg(p, ..) for it, or a listed slot holds it and run_fg is not running
\* for it.
Background(p) ==
  /\ Exists(p) /\ ~BroughtForward(p)
  /\ \/ pc = "run_bg" /\ cur = p
     \/ \E i \in Listed(jobs) : jobs[i].pid = p

\* C19: when run_bg has returned, fg_pid is 0, and in every state fg_pid is
\* not the pid of a process that is in the background, so that forward_signal
\* cannot signal one.
C19_BackgroundNotForeground ==
  /\ (pc = "restore" /\ out # <<>> /\ out[1][1] = "bg") => fg_pid = 0
  /\ \A p \in Pids : Background(p) => fg_pid # p

\* The jobs line was evaluated in this step.
JobsStep == pc = "prompt" /\ cmd' = "jobs"

\* C20: what `jobs` has printed is one line per slot whose status is RUNNING
\* or STOPPED, with the slot's jid, pid and status, and no other line (none
\* for an UNINIT or TERMINATED slot); evaluating it changes neither the
\* table, nor next_jid, nor fg_pid.
C20_JobsListsLive ==
  /\ [](pc = "restore" /\ cmd = "jobs" =>
          LET live == {i \in Slots : jobs[i].st \in {"RUNNING", "STOPPED"}}
          IN  /\ Len(out) = Cardinality(live)
              /\ \A i \in live :
                   \E k \in 1..Len(out) :
                     out[k] = <<"job", jobs[i].jid, jobs[i].pid, jobs[i].st>>
              /\ \A k \in 1..Len(out) :
                   \E i \in live :
                     out[k] = <<"job", jobs[i].jid, jobs[i].pid, jobs[i].st>>)
  /\ [][JobsStep => ShellAlive' /\ UNCHANGED <<jobs, next_jid, fg_pid, proc, wstat>>]_vars

\* C20 witness: `jobs` has printed one line while the other slot is
\* TERMINATED.
C20_Witness ==
  /\ pc = "restore" /\ cmd = "jobs" /\ Len(out) = 1
  /\ \E i, j \in Slots : jobs[i].st = "TERMINATED" /\ jobs[j].st = "STOPPED"

\* reap_child returned in this step.
ReapReturns == InReap /\ Len(hstack') < Len(hstack)

\* C21: from its entry to its return reap_child is the only one to take a
\* child's pending change, and it applies setjobstat for each one it takes; it
\* returns only when no change is pending, whatever number was pending when
\* its single SIGCHLD was delivered; and when none is pending it can return
\* (waitpid with WNOHANG does not wait).
C21_ReaperDrainsAll ==
  /\ [][ /\ ReapReturns => /\ \A p \in Pids : wstat[p] = "none"
                           /\ UNCHANGED <<jobs, proc, wstat>>
         /\ \A p \in Pids :
              (Running("SIGCHLD") /\ ShellAlive' /\ wstat[p] # "none")
                => \/ wstat'[p] # "none"
                   \/ /\ jobs' = setjobstat(jobs, p, Classify(wstat[p])).jobs
                      /\ Running("SIGCHLD")'
      ]_vars
  /\ [](Running("SIGCHLD") /\ (\A p \in Pids : wstat[p] = "none")
          => ENABLED ReapReturn)

\* C21 witness: reap_child has been entered on one SIGCHLD with the changes
\* of two children pending, one of them a tracked job, and none further
\* notified.
C21_Witness ==
  /\ hpc = "reap" /\ ~sigchld
  /\ \E p, q \in Pids : /\ p # q /\ wstat[p] # "none" /\ wstat[q] # "none"
                        /\ HoldsPid(jobs, p) # {}

\* C22: when reap_child collects a change of child p, every slot that holds
\* pid p gets status TERMINATED if p exited or was killed by a signal, STOPPED
\* if it was stopped and RUNNING if it was continued, and keeps its pid and
\* jid; every other slot, next_jid and fg_pid are unchanged.
C22_ReaperClassifies ==
  [][ \A p \in Pids :
        ReapStep(p) =>
          /\ \A i \in Slots :
               IF jobs[i].pid = p
               THEN /\ wstat[p] \in {"exited", "signaled"} => jobs'[i].st = "TERMINATED"
                    /\ wstat[p] = "stopped" => jobs'[i].st = "STOPPED"
                    /\ wstat[p] = "continued" => jobs'[i].st = "RUNNING"
                    /\ jobs'[i].pid = p /\ jobs'[i].jid = jobs[i].jid
               ELSE jobs'[i] = jobs[i]
          /\ UNCHANGED <<next_jid, fg_pid>>
    ]_vars

\* C22 witness: reap_child is about to collect the continuation of a job
\* whose slot says STOPPED.
C22_Witness ==
  /\ hpc = "reap"
  /\ \E i \in Slots : /\ jobs[i].st = "STOPPED" /\ jobs[i].pid \in Pids
                      /\ wstat[jobs[i].pid] = "continued"

\* The main context is between main's sigprocmask(SIG_BLOCK) and its
\* sigprocmask(SIG_SETMASK): eval is running.
Evaluating == ShellAlive /\ pc # "prompt"

\* C23: while eval runs SIGCHLD is blocked and reap_child is neither running
\* nor entered, so that every change of the table, of next_jid or of fg_pid
\* made outside reap_child is made with SIGCHLD blocked and only eval changes
\* the table then; at the prompt SIGCHLD is unblocked again, and a pending
\* SIGCHLD can then be delivered.
C23_EvalExcludesReaper ==
  /\ [](Evaluating => sigblocked /\ ~Running("SIGCHLD") /\ ~ENABLED ReapArrives)
  /\ [](pc = "prompt" => ~sigblocked)
  /\ []((pc = "prompt" /\ sigchld /\ ~Running("SIGCHLD")) => ENABLED ReapArrives)
  /\ [][ /\ (Evaluating \/ Evaluating') => \A p \in Pids : ~ReapStep(p)
         /\ (ShellAlive' /\ ~Running("SIGCHLD") /\ <<jobs, next_jid>>' # <<jobs, next_jid>>)
              => sigblocked /\ sigblocked'
         /\ (pc = "restore" /\ pc' = "prompt") => ~sigblocked'
      ]_vars

\* C23 witness: run_bg is about to register a job while the exit of another
\* tracked job is pending with its SIGCHLD blocked.
C23_Witness ==
  /\ pc = "run_bg" /\ sigblocked /\ sigchld
  /\ \E i \in Listed(jobs) : jobs[i].pid # cur /\ wstat[jobs[i].pid] = "exited"

\* C24: at every prompt, a pid that parse_pid returns for a token (a value
\* > 0) is the pid of a process that has not been reaped, so the
\* kill(stp_pid, SIGCONT) of fg and bg never fails and never ends the shell.
C24_ResolvedExists ==
  /\ pc # "err_kill_cont"
  /\ (pc = "prompt" /\ hpc = "none") =>
       \A tok \in Tokens : parse_pid(jobs, tok) > 0 => Exists(parse_pid(jobs, tok))

====
